---- MODULE Spec2Model ----
(***************************************************************************)
(* Model of the privacy-budgeted quality-check run of BBMRI-cz             *)
(* quality-checks: main.py -> cli_utils.parse_args ->                      *)
(* report_utils.get_qc_results -> QualityCheck.execute ->                  *)
(* dp_utils.add_laplace_noise.                                             *)
(*                                                                         *)
(* Epsilon values are counted in whole units of one fixed quantum (the     *)
(* command line's floats are taken as exact multiples of it), so that      *)
(* total_epsilon_used + epsilon is exact.  Noise draws and noisy counts    *)
(* are counted in halves, so that round() has ties to break.               *)
(***************************************************************************)
EXTENDS Integers, Sequences, FiniteSets, TLC

VARIABLES
    pc,                 \* position of main(): start, rejected, register, loop, done, crashed
    epsilon,            \* args.epsilon, in units
    total_epsilon,      \* args.total_epsilon, in units
    report_type,        \* args.report_type
    directory,          \* the *.cql files of args.directory
    quality_checks,     \* get_qc_results: the registry, a sequence of checks
    idx,                \* get_qc_results: position of the for loop in quality_checks
    results,            \* get_qc_results: the results dict (key -> value)
    total_epsilon_used, \* get_qc_results: the running total
    executed,           \* history: the checks whose execute was called, in call order
    noise_draws,        \* history: number of calls of np.random.laplace
    fn_call,            \* function harness: the last call of a function tried alone
    fn_out,             \* function harness: what that call produced
    fetch_pc,           \* _fetch_all_resources: idle, loop, returned, raised
    url,                \* _fetch_all_resources: the url of the while loop
    resources           \* _fetch_all_resources: the entries collected so far

vars == <<pc, epsilon, total_epsilon, report_type, directory, quality_checks, idx,
          results, total_epsilon_used, executed, noise_draws, fn_call, fn_out,
          fetch_pc, url, resources>>

run_vars == <<pc, epsilon, total_epsilon, report_type, directory, quality_checks, idx,
              results, total_epsilon_used, executed, noise_draws>>

fn_vars == <<fn_call, fn_out>>

fetch_vars == <<fetch_pc, url, resources>>

\* ---------------------------------------------------------------- bounds
MaxCql == 1        \* at most this many *.cql files in the directory
MaxEpsilon == 2    \* per-query epsilon ranges over (0 - MaxInvalid)..MaxEpsilon units
MaxTotal == 3      \* total budget ranges over (0 - MaxInvalid)..MaxTotal units
MaxCount == 0      \* raw counts the checks of a run get back range over 0..MaxCount
MaxNoise2 == 2     \* Laplace samples the noise functions are tried with, in halves
MaxInvalid == 1    \* epsilon and budget are tried from -MaxInvalid upwards

MaxRaw == 3        \* raw counts the noise functions are tried with range over 0..MaxRaw

NoiseDraws == (0 - MaxNoise2)..MaxNoise2

\* The Laplace samples the checks of a run are tried with, in halves: one that
\* takes a small count below zero and one that lands on a tie.
RunNoiseDraws == {-2, 1}

\* ------------------------------------------------------- noise mechanism
Max(a, b) == IF a >= b THEN a ELSE b

\* Python's round() of a float given in halves: ties go to the even integer.
round(v2) ==
    IF v2 % 2 = 0 THEN v2 \div 2
    ELSE LET lo == (v2 - 1) \div 2 IN IF lo % 2 = 0 THEN lo ELSE lo + 1

\* scale = sensitivity / epsilon: the division raises on a zero epsilon,
\* otherwise only the sign of the quotient matters to np.random.laplace.
scale_sign(sensitivity, eps) ==
    IF sensitivity * eps > 0 THEN 1 ELSE IF sensitivity * eps < 0 THEN -1 ELSE 0

\* add_laplace_noise drawing with the magnitude of the scale.
add_laplace_noise_abs_scale(count, eps, sensitivity, noise2) ==
    IF eps = 0 THEN [raised |-> "ZeroDivisionError"]
    ELSE [value |-> Max(0, round(2 * count + noise2))]

\* add_laplace_noise without the clamp at zero.
add_laplace_noise_unclamped(count, eps, sensitivity, noise2) ==
    IF eps = 0 THEN [raised |-> "ZeroDivisionError"]
    ELSE IF scale_sign(sensitivity, eps) < 0 THEN [raised |-> "ValueError"]
    ELSE [value |-> round(2 * count + noise2)]

\* dp_utils.add_laplace_noise; noise2 is the sample np.random.laplace would
\* return, in halves.  The outcome is [value |-> n] or [raised |-> exception].
add_laplace_noise(count, eps, sensitivity, noise2) ==
    IF eps = 0 THEN [raised |-> "ZeroDivisionError"]
    ELSE IF scale_sign(sensitivity, eps) < 0 THEN [raised |-> "ValueError"]
    ELSE [value |-> Max(0, round(2 * count + noise2))]

\* df.apply_differential_privacy
apply_differential_privacy(true_count, eps, clamp_min, noise2) ==
    IF eps <= 0 THEN [raised |-> "ValueError"]
    ELSE [value |-> Max(round(2 * true_count + noise2), clamp_min)]

\* Whether a call of add_laplace_noise gets as far as drawing a sample.
draws_noise(eps, sensitivity) == eps # 0 /\ scale_sign(sensitivity, eps) > 0

\* ---------------------------------------------------------------- checks
FileNames == <<"a.cql", "b.cql", "c.cql">>

BudgetError == "Exceeded total epsilon budget"

\* QualityCheck.__init__: a check object.
QualityCheck(name, kind, description, eps) ==
    [name |-> name, kind |-> kind, description |-> description, epsilon |-> eps]

\* CQLQualityCheck.__init__: named after the file, default description.
CQLQualityCheck(filename, eps) == QualityCheck(filename, "cql", "Unknown", eps)

\* The four Python-based checks, in the order get_qc_results registers them.
DuplicateIdentifierCheck(eps) ==
    QualityCheck("uniqness-1", "duplicate", "Duplicate patients", eps)

InvalidConditionICDCheck(eps) ==
    QualityCheck("validity-1", "condition",
                 "How many conditions have invalid ICD-10 codes", eps)

\* The specimen check registered under the condition check's name.
InvalidSpecimenICDCheck_copied_name(eps) ==
    QualityCheck("validity-1", "specimen",
                 "How many Specimens have invalid ICD-10 diagnoses", eps)

InvalidSpecimenICDCheck(eps) ==
    QualityCheck("validity-2", "specimen",
                 "How many Specimens have invalid ICD-10 diagnoses", eps)

StalePatientCheck(eps) ==
    QualityCheck("timeliness-1", "stale",
                 "How many patients were last updated more than a year ago", eps)

\* What the world outside does during one execute: where (if anywhere) an
\* exception is raised ("open": while the CQL file is first read, "raise":
\* anywhere later in the try block), whether the CQL file starts with a //
\* comment, the raw count, the subject list reference, the Laplace sample.
Envs ==
    [fail : {"open", "raise"}, comment : BOOLEAN, count : {0}, list_ref : {"None"},
     noise2 : {0}]
    \cup
    [fail : {"none"}, comment : BOOLEAN, count : 0..MaxCount,
     list_ref : {"None", "List/1"}, noise2 : RunNoiseDraws]

\* The except branch of every execute.
error_result(e) == [error |-> e, epsilonUsed |-> 0]

\* The result dict a check returns once it has its raw count.
count_result(check, count, noise2) ==
    LET dp == add_laplace_noise(count, check.epsilon, 1, noise2) IN
    IF "raised" \in DOMAIN dp THEN error_result(dp.raised)
    ELSE [count |-> count, countWithDP |-> dp.value, epsilonUsed |-> check.epsilon]

\* d with d[key] = value, as a Python dict assignment.
dict_set(d, key, value) ==
    [k \in (DOMAIN d) \cup {key} |-> IF k = key THEN value ELSE d[k]]

\* CQLQualityCheck.execute with the first read of the file outside the try
\* block: a failing open leaves execute as an exception.
cql_execute_open_outside_try(check, rtype, env) ==
    LET desc == IF env.fail # "open" /\ env.comment THEN "comment text"
                ELSE check.description
        base == count_result(check, env.count, env.noise2)
    IN IF env.fail = "open" THEN [raised |-> "open", description |-> desc]
       ELSE [result |-> IF env.fail # "none" THEN error_result(env.fail) ELSE base,
             description |-> desc]

\* CQLQualityCheck.execute: [result |-> the dict returned,
\* description |-> self.description afterwards].
cql_execute(check, rtype, env) ==
    LET desc == IF env.fail # "open" /\ env.comment THEN "comment text"
                ELSE check.description
        base == count_result(check, env.count, env.noise2)
        res  == IF env.fail # "none" THEN error_result(env.fail)
                ELSE IF "error" \in DOMAIN base THEN base
                ELSE IF rtype = "subject-list"
                     THEN dict_set(dict_set(base, "listReference", env.list_ref),
                                   "patientIds",
                                   IF env.list_ref = "None" THEN "[]" ELSE "ids")
                     ELSE base
    IN [result |-> res, description |-> desc]

\* execute of the Python-based checks with the except branch reporting the
\* check's epsilon as used.
native_execute_bills_failure(check, rtype, env) ==
    LET base == count_result(check, env.count, env.noise2)
        res  == IF env.fail # "none"
                THEN [error |-> env.fail, epsilonUsed |-> check.epsilon]
                ELSE base
    IN [result |-> res, description |-> check.description]

\* execute of the four Python-based checks.
native_execute(check, rtype, env) ==
    LET base == count_result(check, env.count, env.noise2)
        res  == IF env.fail # "none" THEN error_result(env.fail)
                ELSE IF "error" \in DOMAIN base THEN base
                ELSE IF rtype = "subject-list"
                     THEN dict_set(base, "patientIds",
                                   IF check.kind = "duplicate" THEN "ids" ELSE "[]")
                     ELSE base
    IN [result |-> res, description |-> check.description]

\* check.execute(base_url, subject_type, report_type), by dynamic dispatch.
execute(check, rtype, env) ==
    IF check.kind = "cql" THEN cql_execute(check, rtype, env)
    ELSE native_execute(check, rtype, env)

\* Whether this execute reaches np.random.laplace.
execute_draws(check, env) == env.fail = "none" /\ draws_noise(check.epsilon, 1)

\* ------------------------------------------------------------------- run
EmptyDict == [k \in {} |-> 0]

\* The directories tried: up to MaxCql names matching *.cql, each either a
\* regular file (TRUE) or not (FALSE).
Directories ==
    UNION {[{FileNames[i] : i \in 1..n} -> BOOLEAN] : n \in 0..MaxCql}

\* The orders in which glob.glob may list the names of S.
Orders(S) ==
    {s \in [1..Cardinality(S) -> S] : \A i, j \in 1..Cardinality(S) : i # j => s[i] # s[j]}

\* No _fetch_all_resources is under way.
NoFetch == fetch_pc = "idle" /\ url = "None" /\ resources = << >>

\* The function harness before its first call.
NoCall == [fn |-> "none", count |-> 0, epsilon |-> 1, noise2 |-> 0]

\* parse_args without the test of epsilon against the total budget.
parse_args_without_ceiling_test(eps, total) ==
    IF eps <= 0 THEN "Epsilon must be positive"
    ELSE IF total <= 0 THEN "Total epsilon must be positive"
    ELSE "ok"

\* cli_utils.parse_args: the three parser.error tests, in order.
parse_args(eps, total) ==
    IF eps <= 0 THEN "Epsilon must be positive"
    ELSE IF total <= 0 THEN "Total epsilon must be positive"
    ELSE IF eps > total THEN "Per-query epsilon cannot exceed total epsilon budget"
    ELSE "ok"

\* The registration with the Python-based checks put in front of the CQL ones.
registry_natives_first(dir, order, eps) ==
    LET files == SelectSeq(order, LAMBDA f : dir[f])
    IN << DuplicateIdentifierCheck(eps), InvalidConditionICDCheck(eps),
          InvalidSpecimenICDCheck(eps), StalePatientCheck(eps) >>
       \o [i \in 1..Len(files) |-> CQLQualityCheck(files[i], eps)]

\* get_qc_results, registration: the CQL checks in glob order (regular files
\* only), then the Python-based checks.
registry(dir, order, eps) ==
    LET files == SelectSeq(order, LAMBDA f : dir[f])
    IN [i \in 1..Len(files) |-> CQLQualityCheck(files[i], eps)]
       \o << DuplicateIdentifierCheck(eps), InvalidConditionICDCheck(eps),
             InvalidSpecimenICDCheck(eps), StalePatientCheck(eps) >>

\* The admission test with the epsilon of the next check left out.
budget_exceeded_before_adding(used, eps, total) == used > total

\* The admission test on the spent total alone, refusing at the ceiling.
budget_exceeded_at_ceiling(used, eps, total) == used >= total

\* The admission test refusing a check that would exactly use the budget up.
budget_exceeded_or_reached(used, eps, total) == used + eps >= total

\* get_qc_results, the admission test of the loop.
budget_exceeded(used, eps, total) == used + eps > total

\* The billing that adds the result's epsilonUsed twice.
epsilon_used_of_doubled(result) ==
    IF "epsilonUsed" \in DOMAIN result THEN 2 * result.epsilonUsed ELSE 0

\* The billing lookup under a key no result carries.
epsilon_used_of_wrong_key(result) ==
    IF "epsilon" \in DOMAIN result THEN result.epsilon ELSE 0

\* result.get("epsilonUsed", 0.0)
epsilon_used_of(result) ==
    IF "epsilonUsed" \in DOMAIN result THEN result.epsilonUsed ELSE 0

Init ==
    /\ pc = "start"
    /\ epsilon \in (0 - MaxInvalid)..MaxEpsilon
    /\ total_epsilon \in (0 - MaxInvalid)..MaxTotal
    /\ report_type \in {"population", "subject-list"}
    /\ directory \in Directories
    /\ quality_checks = << >>
    /\ idx = 1
    /\ results = EmptyDict
    /\ total_epsilon_used = 0
    /\ executed = << >>
    /\ noise_draws = 0
    /\ fn_call = NoCall
    /\ fn_out = EmptyDict
    /\ NoFetch

\* main: args = parse_args(); parser.error exits the process.
ParseArgs ==
    /\ pc = "start"
    /\ pc' = IF parse_args(epsilon, total_epsilon) = "ok" THEN "register" ELSE "rejected"
    /\ UNCHANGED <<epsilon, total_epsilon, report_type, directory, quality_checks, idx,
                   results, total_epsilon_used, executed, noise_draws, fn_call, fn_out>>
    /\ UNCHANGED fetch_vars

\* get_qc_results up to the loop: results = {}, total_epsilon_used = 0.0 and
\* the registry.
Register ==
    /\ pc = "register"
    /\ \E order \in Orders(DOMAIN directory) :
          quality_checks' = registry(directory, order, epsilon)
    /\ results' = EmptyDict
    /\ total_epsilon_used' = 0
    /\ idx' = 1
    /\ pc' = "loop"
    /\ UNCHANGED <<epsilon, total_epsilon, report_type, directory, executed,
                   noise_draws, fn_call, fn_out>>
    /\ UNCHANGED fetch_vars

\* The budget branch charging the rejected check all the same.
Skip_charges ==
    /\ pc = "loop"
    /\ idx <= Len(quality_checks)
    /\ budget_exceeded(total_epsilon_used, epsilon, total_epsilon)
    /\ results' = dict_set(results, quality_checks[idx].name, error_result(BudgetError))
    /\ idx' = idx + 1
    /\ total_epsilon_used' = total_epsilon_used + epsilon
    /\ UNCHANGED <<pc, epsilon, total_epsilon, report_type, directory, quality_checks,
                   executed, noise_draws, fn_call, fn_out>>
    /\ UNCHANGED fetch_vars

\* One iteration of the loop that takes the budget branch (continue).
Skip ==
    /\ pc = "loop"
    /\ idx <= Len(quality_checks)
    /\ budget_exceeded(total_epsilon_used, epsilon, total_epsilon)
    /\ results' = dict_set(results, quality_checks[idx].name, error_result(BudgetError))
    /\ idx' = idx + 1
    /\ UNCHANGED <<pc, epsilon, total_epsilon, report_type, directory, quality_checks,
                   total_epsilon_used, executed, noise_draws, fn_call, fn_out>>
    /\ UNCHANGED fetch_vars

\* One iteration of the loop that executes the check and bills it.
Execute ==
    /\ pc = "loop"
    /\ idx <= Len(quality_checks)
    /\ ~budget_exceeded(total_epsilon_used, epsilon, total_epsilon)
    /\ \E env \in Envs :
          LET check == quality_checks[idx]
              r     == execute(check, report_type, env)
          IN /\ env.fail = "open" => check.kind = "cql"
             /\ quality_checks' = [quality_checks EXCEPT ![idx].description = r.description]
             /\ executed' = Append(executed, check.name)
             /\ noise_draws' = noise_draws + (IF execute_draws(check, env) THEN 1 ELSE 0)
             /\ IF "raised" \in DOMAIN r
                THEN \* an exception that leaves execute leaves get_qc_results and main
                     /\ pc' = "crashed"
                     /\ UNCHANGED <<results, total_epsilon_used, idx>>
                ELSE /\ results' = dict_set(results, check.name,
                                            dict_set(r.result, "description", r.description))
                     /\ total_epsilon_used' = total_epsilon_used + epsilon_used_of(r.result)
                     /\ idx' = idx + 1
                     /\ pc' = pc
    /\ UNCHANGED <<epsilon, total_epsilon, report_type, directory, fn_call, fn_out>>
    /\ UNCHANGED fetch_vars

\* After the loop: results["totalEpsilonUsed"] = total_epsilon_used; return.
Finish ==
    /\ pc = "loop"
    /\ idx > Len(quality_checks)
    /\ results' = dict_set(results, "totalEpsilonUsed", total_epsilon_used)
    /\ pc' = "done"
    /\ UNCHANGED <<epsilon, total_epsilon, report_type, directory, quality_checks, idx,
                   total_epsilon_used, executed, noise_draws, fn_call, fn_out>>
    /\ UNCHANGED fetch_vars

Next == ParseArgs \/ Register \/ Skip \/ Execute \/ Finish

Spec == Init /\ [][Next]_vars

\* ---------------------------------------------- the noise functions alone
InitNoise ==
    /\ pc = "noise"
    /\ epsilon = 0
    /\ total_epsilon = 0
    /\ report_type = "population"
    /\ directory = EmptyDict
    /\ quality_checks = << >>
    /\ idx = 1
    /\ results = EmptyDict
    /\ total_epsilon_used = 0
    /\ executed = << >>
    /\ noise_draws = 0
    /\ fn_call = NoCall
    /\ fn_out = EmptyDict
    /\ NoFetch

\* A call add_laplace_noise(count, eps) with the default sensitivity.
CallAddLaplaceNoise ==
    /\ pc = "noise"
    /\ \E count \in 0..MaxRaw, eps \in (0 - MaxInvalid)..MaxEpsilon, noise2 \in NoiseDraws :
          /\ fn_call' = [fn |-> "add_laplace_noise", count |-> count, epsilon |-> eps,
                         noise2 |-> noise2]
          /\ fn_out' = add_laplace_noise(count, eps, 1, noise2)
    /\ UNCHANGED run_vars
    /\ UNCHANGED fetch_vars

\* A call apply_differential_privacy(true_count, eps) with the default clamp_min.
CallApplyDifferentialPrivacy ==
    /\ pc = "noise"
    /\ \E count \in 0..MaxRaw, eps \in (0 - MaxInvalid)..MaxEpsilon, noise2 \in NoiseDraws :
          /\ fn_call' = [fn |-> "apply_differential_privacy", count |-> count,
                         epsilon |-> eps, noise2 |-> noise2]
          /\ fn_out' = apply_differential_privacy(count, eps, 0, noise2)
    /\ UNCHANGED run_vars
    /\ UNCHANGED fetch_vars

NextNoise == CallAddLaplaceNoise \/ CallApplyDifferentialPrivacy

SpecNoise == InitNoise /\ [][NextNoise]_vars

\* ------------------------------------------- _fetch_all_resources alone
MaxPages == 2      \* the server has this many page urls besides the first
MaxFetched == 3    \* the server hands out at most this many entries in all

\* The urls a bundle's "next" link may carry.
PageUrls == {"first"} \cup {"page" \o ToString(i) : i \in 1..MaxPages}

\* The entries a bundle may hold.
Entries == {"Patient/1", "Patient/2"}

InitFetch ==
    /\ pc = "fetch"
    /\ epsilon = 0
    /\ total_epsilon = 0
    /\ report_type = "population"
    /\ directory = EmptyDict
    /\ quality_checks = << >>
    /\ idx = 1
    /\ results = EmptyDict
    /\ total_epsilon_used = 0
    /\ executed = << >>
    /\ noise_draws = 0
    /\ fn_call = NoCall
    /\ fn_out = EmptyDict
    /\ fetch_pc = "loop"
    /\ url = "first"
    /\ resources = << >>

\* One turn of `while url:`: the GET either raises (raise_for_status, a
\* malformed body or link), which ends the call inside execute's except
\* branch, or gives a bundle whose entries are appended and whose "next"
\* link, if any, becomes the url ("" and None both end the loop).
FetchPage ==
    /\ fetch_pc = "loop"
    /\ url \notin {"None", ""}
    /\ \/ /\ fetch_pc' = "raised"
          /\ UNCHANGED <<url, resources>>
       \/ /\ \E entry \in SUBSET Entries, next_link \in PageUrls \cup {"None", ""} :
                /\ Cardinality(entry) <= 1
                /\ Len(resources) + Cardinality(entry) <= MaxFetched
                /\ resources' = IF entry = {} THEN resources
                                ELSE Append(resources, CHOOSE e \in entry : TRUE)
                /\ url' = next_link
          /\ UNCHANGED fetch_pc
    /\ UNCHANGED <<run_vars, fn_vars>>

\* The loop ends on a false url: return resources.
FetchReturn ==
    /\ fetch_pc = "loop"
    /\ url \in {"None", ""}
    /\ fetch_pc' = "returned"
    /\ UNCHANGED <<url, resources, run_vars, fn_vars>>

NextFetch == FetchPage \/ FetchReturn

\* The interpreter keeps running the loop: whatever step is possible is
\* eventually taken.
SpecFetch == InitFetch /\ [][NextFetch]_vars /\ WF_vars(NextFetch)

\* ------------------------------------ the counts of the native checks alone
MaxPatients == 3   \* at most this many Patient entries are fetched

\* DuplicateIdentifierCheck.__init__: the default identifier_system.
identifier_system == "https://fhir.bbmri.de/id/patient"

\* Identifier lists a fetched Patient is tried with: none, one value, another
\* value, one value twice, two values, a value of another system, an empty
\* value.
IdentifierLists ==
    LET A == [system |-> identifier_system, value |-> "v1"]
        B == [system |-> identifier_system, value |-> "v2"]
        O == [system |-> "urn:other", value |-> "v1"]
        E == [system |-> identifier_system, value |-> ""]
    IN {<< >>, <<A>>, <<B>>, <<A, A>>, <<A, B>>, <<O>>, <<E>>}

\* The resources of the fetched Patient entries: patient.get("id") ("None"
\* when the key is missing) and patient.get("identifier", []).
PatientResources == [id : {"1", "2", "None"}, identifier : IdentifierLists]

\* Sequences over S of a length up to n.
SeqsUpTo(S, n) == UNION {[1..k -> S] : k \in 0..n}

\* The set of the elements of a sequence.
Range(q) == {q[i] : i \in 1..Len(q)}

\* f"Patient/{patient_id}"
patient_ref(id) == "Patient/" \o id

\* Lines 119-125 for one patient: a [ref, value] for every identifier of the
\* configured system with a non-empty value, in order.
patient_occurrences(patient) ==
    LET kept == SelectSeq(patient.identifier,
                          LAMBDA ident : ident.system = identifier_system
                                         /\ ident.value # "")
    IN [i \in 1..Len(kept) |-> [ref |-> patient_ref(patient.id), value |-> kept[i].value]]

\* Lines 115-125 over all entries.
RECURSIVE occurrences(_)
occurrences(patients) ==
    IF patients = << >> THEN << >>
    ELSE patient_occurrences(Head(patients)) \o occurrences(Tail(patients))

\* identifier_map after the loop: value -> the list of references appended.
identifier_map(patients) ==
    LET occ == occurrences(patients) IN
    [v \in {occ[i].value : i \in 1..Len(occ)} |->
        LET hits == SelectSeq(occ, LAMBDA o : o.value = v)
        IN [i \in 1..Len(hits) |-> hits[i].ref]]

\* duplicate_ids with every listed reference taken for a duplicate.
duplicate_ids_any_length(patients) ==
    LET map == identifier_map(patients) IN
    UNION {Range(map[v]) : v \in DOMAIN map}

\* set(duplicate_ids), lines 127-132: the references under a value whose
\* list is longer than 1.
duplicate_ids(patients) ==
    LET map == identifier_map(patients) IN
    UNION {Range(map[v]) : v \in {w \in DOMAIN map : Len(map[w]) > 1}}

\* DuplicateIdentifierCheck.execute: the raw count.
duplicate_count(patients) == Cardinality(duplicate_ids(patients))

\* dateutil's parse on the timestamps tried, as a position on the time line;
\* a string outside the table does not parse and raises.
date_table ==
    [ts \in {"2024-05-27T23:59:59Z", "2024-05-28T00:00:00Z", "2025-01-01T00:00:00Z"} |->
        IF ts = "2024-05-27T23:59:59Z" THEN -1
        ELSE IF ts = "2024-05-28T00:00:00Z" THEN 0 ELSE 1]

parse_date(ts) == date_table[ts]

\* StalePatientCheck.__init__: self.cutoff_date
cutoff_date == parse_date("2024-05-28T00:00:00Z")

\* last_updated_date < self.cutoff_date (and the same test on recordedDate).
is_stale(ts) == parse_date(ts) < cutoff_date

\* The Patient resources the stale check is tried with: id and
\* meta.lastUpdated ("None" when missing, "yesterday" not a timestamp).
StalePatientResources ==
    {[id |-> "1", lastUpdated |-> "2024-05-27T23:59:59Z"],
     [id |-> "2", lastUpdated |-> "2024-05-27T23:59:59Z"],
     [id |-> "1", lastUpdated |-> "2025-01-01T00:00:00Z"],
     [id |-> "2", lastUpdated |-> "2024-05-28T00:00:00Z"],
     [id |-> "1", lastUpdated |-> "None"],
     [id |-> "2", lastUpdated |-> "yesterday"]}

\* The Condition resources it is tried with: subject.reference and
\* recordedDate ("None" when missing).
ConditionResources ==
    {[subject |-> "Patient/1", recordedDate |-> "2024-05-27T23:59:59Z"],
     [subject |-> "Patient/3", recordedDate |-> "2024-05-27T23:59:59Z"],
     [subject |-> "Patient/1", recordedDate |-> "2025-01-01T00:00:00Z"],
     [subject |-> "None", recordedDate |-> "2024-05-27T23:59:59Z"],
     [subject |-> "Patient/1", recordedDate |-> "None"],
     [subject |-> "Patient/3", recordedDate |-> "yesterday"]}

MaxConditions == 2 \* at most this many Condition entries are fetched

\* Whether parse_date raises on one of the timestamps of q that are present.
raises_on(q) == \E i \in 1..Len(q) : q[i] # "None" /\ q[i] \notin DOMAIN date_table

\* Lines 246-253: stale_ids after the loop over the patients.
stale_patient_ids(patients) ==
    LET hits == SelectSeq(patients,
                          LAMBDA p : p.lastUpdated # "None" /\ is_stale(p.lastUpdated))
    IN [i \in 1..Len(hits) |-> patient_ref(hits[i].id)]

\* Lines 257-266: what the fallback loop over the conditions appends.
stale_condition_subjects(conditions) ==
    LET hits == SelectSeq(conditions,
                          LAMBDA c : /\ c.recordedDate # "None"
                                     /\ is_stale(c.recordedDate)
                                     /\ c.subject # "None")
    IN [i \in 1..Len(hits) |-> hits[i].subject]

\* StalePatientCheck.execute up to the raw count: [count |-> n], or
\* [error |-> e] when a timestamp does not parse.
stale_execute(patients, conditions) ==
    IF raises_on([i \in 1..Len(patients) |-> patients[i].lastUpdated])
    THEN [error |-> "ParserError"]
    ELSE LET stale_ids == stale_patient_ids(patients) IN
         IF stale_ids # << >> THEN [count |-> Cardinality(Range(stale_ids))]
         ELSE IF raises_on([i \in 1..Len(conditions) |-> conditions[i].recordedDate])
              THEN [error |-> "ParserError"]
              ELSE [count |-> Cardinality(Range(stale_condition_subjects(conditions)))]

InitNative ==
    /\ pc = "native"
    /\ epsilon = 0
    /\ total_epsilon = 0
    /\ report_type = "population"
    /\ directory = EmptyDict
    /\ quality_checks = << >>
    /\ idx = 1
    /\ results = EmptyDict
    /\ total_epsilon_used = 0
    /\ executed = << >>
    /\ noise_draws = 0
    /\ fn_call = NoCall
    /\ fn_out = EmptyDict
    /\ NoFetch

\* DuplicateIdentifierCheck.execute on a fetched list of Patient entries.
CallDuplicateIdentifierCheck ==
    /\ pc = "native"
    /\ fn_call = NoCall   \* one call per run of the check
    /\ \E patients \in SeqsUpTo(PatientResources, MaxPatients) :
          /\ fn_call' = [fn |-> "DuplicateIdentifierCheck.execute", patients |-> patients]
          /\ fn_out' = [count |-> duplicate_count(patients)]
    /\ UNCHANGED <<run_vars, fetch_vars>>

\* StalePatientCheck.execute on fetched Patient entries and, for the fallback,
\* fetched Condition entries.
CallStalePatientCheck ==
    /\ pc = "native"
    /\ fn_call = NoCall   \* one call per run of the check
    /\ \E patients \in SeqsUpTo(StalePatientResources, MaxPatients),
          conditions \in SeqsUpTo(ConditionResources, MaxConditions) :
          /\ fn_call' = [fn |-> "StalePatientCheck.execute", patients |-> patients,
                         conditions |-> conditions]
          /\ fn_out' = stale_execute(patients, conditions)
    /\ UNCHANGED <<run_vars, fetch_vars>>

NextNative == CallDuplicateIdentifierCheck \/ CallStalePatientCheck

SpecNative == InitNative /\ [][NextNative]_vars

\* ================================================================ claims
\* Helpers for stating the claims.
RECURSIVE SumOver(_, _)
SumOver(f, S) ==
    IF S = {} THEN 0
    ELSE LET x == CHOOSE y \in S : TRUE IN f[x] + SumOver(f, S \ {x})

\* The per-check keys of the report.
CheckKeys == (DOMAIN results) \ {"totalEpsilonUsed"}

Registered == {quality_checks[i].name : i \in 1..Len(quality_checks)}

HasCount(k) == "count" \in DOMAIN results[k]

HasError(k) == "error" \in DOMAIN results[k]

IsRejected(k) == HasError(k) /\ results[k].error = BudgetError

IsFailed(k) == HasError(k) /\ results[k].error # BudgetError

EpsilonUsedByKey == [k \in CheckKeys |-> results[k].epsilonUsed]

InRun == pc \in {"loop", "done"}

\* The check the loop is about to consider.
AtCheck == pc = "loop" /\ idx <= Len(quality_checks)

\* C1: the budget is never exceeded: after every loop iteration the running
\* total_epsilon_used is at most total_epsilon, and the epsilonUsed of the
\* completed checks of the report add up to at most total_epsilon.
C1_BudgetNeverExceeded ==
    InRun =>
        /\ total_epsilon_used <= total_epsilon
        /\ SumOver(EpsilonUsedByKey, {k \in CheckKeys : HasCount(k)}) <= total_epsilon

\* A finished run that spent its budget to the last unit, had a check fail
\* and had to turn a check away.
C1_Witness ==
    /\ pc = "done"
    /\ total_epsilon_used = total_epsilon
    /\ \E k \in CheckKeys : IsRejected(k)
    /\ \E k \in CheckKeys : IsFailed(k)
    /\ \E k \in CheckKeys : HasCount(k)

\* C2: a check that is denied admission (total_epsilon_used + epsilon >
\* total_epsilon when it is considered) is not executed, draws no noise, is
\* not billed, and is recorded under its name with epsilonUsed 0 and the
\* budget-exceeded error.
C2_DeniedNotExecutedNotBilled ==
    [][(AtCheck /\ total_epsilon_used + epsilon > total_epsilon) =>
          /\ executed' = executed
          /\ noise_draws' = noise_draws
          /\ total_epsilon_used' = total_epsilon_used
          /\ quality_checks[idx].name \in DOMAIN results'
          /\ results'[quality_checks[idx].name] = [error |-> BudgetError, epsilonUsed |-> 0]
      ]_vars

\* A denied check sits in the report although the budget still had room for
\* less than one epsilon, and it was never executed.
C2_Witness ==
    /\ pc = "loop"
    /\ total_epsilon_used < total_epsilon
    /\ \E k \in CheckKeys :
          /\ IsRejected(k)
          /\ results[k].epsilonUsed = 0
          /\ \A i \in 1..Len(executed) : executed[i] # k

\* The name of the i-th check of the registry.
NameAt(i) == quality_checks[i].name

WasExecuted(k) == \E i \in 1..Len(executed) : executed[i] = k

\* C3: failure isolation: a failure inside execute is caught there and gives
\* a result with an error field and epsilonUsed 0; no exception leaves
\* get_qc_results; the loop goes on to the next check, and every check the
\* budget admits is executed, whatever happened to the checks before it.
C3_FailureIsolation ==
    /\ [](pc # "crashed")
    /\ [][(AtCheck /\ total_epsilon_used + epsilon <= total_epsilon) =>
             /\ executed' = Append(executed, NameAt(idx))
             /\ pc' = "loop"
             /\ idx' = idx + 1
             /\ NameAt(idx) \in DOMAIN results'
             /\ LET res == results'[NameAt(idx)] IN
                   \/ "count" \in DOMAIN res
                   \/ /\ "error" \in DOMAIN res
                      /\ res.epsilonUsed = 0
                      /\ total_epsilon_used' = total_epsilon_used
         ]_vars

\* A check failed while being executed, was recorded with its error and no
\* charge, and a check after it was executed and completed.
C3_Witness ==
    /\ pc = "done"
    /\ \E i, j \in 1..Len(quality_checks) :
          /\ i < j
          /\ IsFailed(NameAt(i))
          /\ results[NameAt(i)].epsilonUsed = 0
          /\ WasExecuted(NameAt(i))
          /\ HasCount(NameAt(j))

\* C4: report completeness: when get_qc_results returns, the report has
\* exactly one entry per registered check, under that check's name (as many
\* check entries as registered checks, none overwritten by another check or
\* by totalEpsilonUsed), each with count and countWithDP or with an error.
C4_ReportComplete ==
    pc = "done" =>
        /\ CheckKeys = Registered
        /\ Cardinality(CheckKeys) = Len(quality_checks)
        /\ "totalEpsilonUsed" \notin Registered
        /\ \A k \in CheckKeys :
              \/ HasCount(k) /\ "countWithDP" \in DOMAIN results[k]
              \/ HasError(k)

\* A returned report of a run with a CQL check, holding successful entries
\* and error entries.
C4_Witness ==
    /\ pc = "done"
    /\ Len(quality_checks) > 4
    /\ \E k \in CheckKeys : HasCount(k)
    /\ \E k \in CheckKeys : HasError(k)

\* The number of checks the budget pays for: the largest k with
\* k * epsilon <= total_epsilon, capped at the number of checks.
Affordable ==
    CHOOSE k \in 0..Len(quality_checks) :
        /\ k * epsilon <= total_epsilon
        /\ k = Len(quality_checks) \/ (k + 1) * epsilon > total_epsilon

C6_TotalIsSum ==
    pc = "done" =>
        /\ "totalEpsilonUsed" \in DOMAIN results
        /\ results["totalEpsilonUsed"] = total_epsilon_used
        /\ results["totalEpsilonUsed"] = SumOver(EpsilonUsedByKey, CheckKeys)

\* A returned report with a positive total made of more than one charge, next
\* to entries that were not charged.
C6_Witness ==
    /\ pc = "done"
    /\ results["totalEpsilonUsed"] > epsilon
    /\ \E k \in CheckKeys : IsFailed(k)
    /\ \E k \in CheckKeys : IsRejected(k)

\* The run configurations the command line must refuse.
InvalidConfig == epsilon <= 0 \/ total_epsilon <= 0 \/ epsilon > total_epsilon

\* C7: an invalid run configuration (epsilon <= 0, total budget <= 0, or
\* epsilon above the total budget) is rejected before any check is
\* registered, admitted or executed, and no report is produced.
C7_InvalidConfigRejected ==
    InvalidConfig =>
        /\ pc \in {"start", "rejected"}
        /\ quality_checks = << >>
        /\ results = EmptyDict
        /\ executed = << >>
        /\ noise_draws = 0
        /\ total_epsilon_used = 0

\* A run with a positive epsilon above a positive budget was rejected.
C7_Witness ==
    /\ pc = "rejected"
    /\ epsilon > total_epsilon
    /\ total_epsilon > 0

\* C8: add_laplace_noise fails for every epsilon <= 0 (zero and negative)
\* and returns no privatized count then.
C8_NoiseFailsOnBadEpsilon ==
    (fn_call.fn = "add_laplace_noise" /\ fn_call.epsilon <= 0) =>
        /\ "raised" \in DOMAIN fn_out
        /\ "value" \notin DOMAIN fn_out

\* add_laplace_noise was called with a negative epsilon and raised.
C8_Witness ==
    /\ fn_call.fn = "add_laplace_noise"
    /\ fn_call.epsilon < 0
    /\ "raised" \in DOMAIN fn_out

\* The integer nearest to v2 halves, a tie going to the even one.
Nearest(v2) ==
    CHOOSE r \in (0 - (MaxRaw + MaxNoise2 + 1))..(MaxRaw + MaxNoise2 + 1) :
        LET d == 2 * r - v2 IN
        \/ d = 0
        \/ d \in {-1, 1} /\ r % 2 = 0

\* C9: for every epsilon > 0, every non-negative raw count and every noise
\* draw, the noise mechanism returns a non-negative integer, the larger of 0
\* and the rounded sum of raw count and noise.
C9_NoiseNonNegative ==
    (fn_call.fn \in {"add_laplace_noise", "apply_differential_privacy"}
       /\ fn_call.epsilon > 0) =>
        /\ "value" \in DOMAIN fn_out
        /\ fn_out.value \in Nat
        /\ LET r == Nearest(2 * fn_call.count + fn_call.noise2) IN
              fn_out.value = IF r > 0 THEN r ELSE 0

\* add_laplace_noise drew a noise below minus the raw count and returned 0.
C9_Witness ==
    /\ fn_call.fn = "add_laplace_noise"
    /\ fn_call.epsilon > 0
    /\ 2 * fn_call.count + fn_call.noise2 < -1
    /\ "value" \in DOMAIN fn_out
    /\ fn_out.value = 0

\* The registered check of the name k.
CheckNamed(k) == quality_checks[CHOOSE i \in 1..Len(quality_checks) : NameAt(i) = k]

\* C10: in every per-check record of the report countWithDP is present iff
\* count is, epsilonUsed is the check's epsilon when count is present and 0
\* otherwise; a completed check is charged its epsilon exactly once.
C10_ResultShape ==
    InRun =>
        /\ \A k \in CheckKeys :
              /\ k \in Registered
              /\ "epsilonUsed" \in DOMAIN results[k]
              /\ ("countWithDP" \in DOMAIN results[k]) <=> HasCount(k)
              /\ HasCount(k) => results[k].epsilonUsed = CheckNamed(k).epsilon
              /\ ~HasCount(k) => results[k].epsilonUsed = 0
        /\ total_epsilon_used = epsilon * Cardinality({k \in CheckKeys : HasCount(k)})
        /\ \A i, j \in 1..Len(executed) : i # j => executed[i] # executed[j]

\* The report holds a completed, a failed and a rejected check.
C10_Witness ==
    /\ InRun
    /\ \E k \in CheckKeys : HasCount(k) /\ results[k].epsilonUsed = epsilon
    /\ \E k \in CheckKeys : IsFailed(k) /\ WasExecuted(k)
    /\ \E k \in CheckKeys : IsRejected(k)

\* C11: a run always terminates: whatever bundles and next links the data
\* source returns, the fetch of a check returns or raises, so that the check
\* reaches a terminal state and the run goes on to return the report.
C11_FetchTerminates == <>(fetch_pc \in {"returned", "raised"})

\* The names of the Python-based checks, in their fixed order.
NativeNames == <<"uniqness-1", "validity-1", "validity-2", "timeliness-1">>

\* The position of the check named k in the registry.
PosOf(k) == CHOOSE i \in 1..Len(quality_checks) : NameAt(i) = k

\* C12: checks are handled one after the other in registry order, the CQL
\* checks (one per regular *.cql file) first and then uniqness-1, validity-1,
\* validity-2, timeliness-1: when check idx is considered, exactly the checks
\* before it have their record and their charge, execute was called on
\* checks in registry order only, and on none of them twice.
C12_SequentialInOrder ==
    /\ [](InRun =>
            LET n == Len(quality_checks) - 4 IN
            /\ n >= 0
            /\ n = Cardinality({f \in DOMAIN directory : directory[f]})
            /\ \A i \in 1..n :
                  /\ quality_checks[i].kind = "cql"
                  /\ NameAt(i) \in DOMAIN directory
                  /\ directory[NameAt(i)]
            /\ \A j \in 1..4 : NameAt(n + j) = NativeNames[j]
            /\ CheckKeys = {NameAt(i) : i \in 1..(idx - 1)}
            /\ total_epsilon_used = SumOver(EpsilonUsedByKey, CheckKeys)
            /\ \A a \in 1..Len(executed) :
                  /\ executed[a] \in Registered
                  /\ PosOf(executed[a]) < idx
                  /\ \A b \in 1..Len(executed) :
                        a < b => PosOf(executed[a]) < PosOf(executed[b]))
    /\ [][pc = "loop" => idx' \in {idx, idx + 1}]_vars

\* A finished run in which a CQL check was executed first and Python-based
\* checks after it.
C12_Witness ==
    /\ pc = "done"
    /\ Len(quality_checks) = 5
    /\ Len(executed) >= 3
    /\ quality_checks[1].kind = "cql"
    /\ executed[1] = NameAt(1)
    /\ executed[2] = "uniqness-1"
    /\ executed[3] = "validity-1"

\* C13: ledger frame: total_epsilon_used starts at 0, never decreases, is
\* left alone by a rejected and by a failed check, and grows only when a
\* check completes, by exactly that check's epsilon.
C13_LedgerFrame ==
    /\ []((pc \in {"start", "rejected", "register"} \/ (pc = "loop" /\ idx = 1))
             => total_epsilon_used = 0)
    /\ [][/\ total_epsilon_used' >= total_epsilon_used
          /\ total_epsilon_used' # total_epsilon_used =>
                /\ AtCheck
                /\ idx' = idx + 1
                /\ "count" \in DOMAIN results'[NameAt(idx)]
          /\ (AtCheck /\ idx' = idx + 1) =>
                LET res == results'[NameAt(idx)] IN
                /\ "error" \in DOMAIN res => total_epsilon_used' = total_epsilon_used
                /\ "count" \in DOMAIN res =>
                      total_epsilon_used' = total_epsilon_used + quality_checks[idx].epsilon
         ]_vars

\* The ledger stands at one epsilon after a completed, a failed and a rejected
\* check.
C13_Witness ==
    /\ pc = "done"
    /\ total_epsilon_used = epsilon
    /\ \E k \in CheckKeys : HasCount(k)
    /\ \E k \in CheckKeys : IsFailed(k)
    /\ \E k \in CheckKeys : IsRejected(k)

\* How many of the checks before the i-th completed, and how many were
\* executed.
CompletedBefore(i) == Cardinality({j \in 1..(i - 1) : HasCount(NameAt(j))})

ExecutedBefore(i) == Cardinality({j \in 1..(i - 1) : WasExecuted(NameAt(j))})

C15_EveryRecordDescribed ==
    pc = "done" =>
        \A k \in CheckKeys :
            /\ "description" \in DOMAIN results[k]
            /\ results[k].description = CheckNamed(k).description

\* Whether the i-th fetched patient lists the value v under the configured
\* system.
ListsValue(patients, i, v) ==
    \E a \in 1..Len(patients[i].identifier) :
        /\ patients[i].identifier[a].system = identifier_system
        /\ patients[i].identifier[a].value = v

\* The (record, identifier) places that hold a non-empty value of the
\* configured system.
Places(patients) ==
    UNION {{<<i, a>> : a \in {b \in 1..Len(patients[i].identifier) :
                                /\ patients[i].identifier[b].system = identifier_system
                                /\ patients[i].identifier[b].value # ""}} :
           i \in 1..Len(patients)}

ValueAt(patients, pl) == patients[pl[1]].identifier[pl[2]].value

IsDuplicateCall == fn_call.fn = "DuplicateIdentifierCheck.execute"

\* C16 as claimed: the raw count of the duplicate-identifier check is the
\* number of identifier values of the configured system that appear on more
\* than one Patient record.
C16_CountsSharedValues ==
    IsDuplicateCall =>
        fn_out.count =
            Cardinality({v \in {"v1", "v2"} :
                Cardinality({i \in 1..Len(fn_call.patients) :
                                ListsValue(fn_call.patients, i, v)}) > 1})

\* C16 as amended: the raw count is the number of distinct references
\* Patient/<id> that hold a non-empty value of the configured system which is
\* listed at least twice among all identifiers of all fetched records.
C16_CountsPatientsWithRepeatedValue ==
    IsDuplicateCall =>
        LET ps == fn_call.patients IN
        fn_out.count =
            Cardinality({patient_ref(ps[pl[1]].id) : pl \in
                {p1 \in Places(ps) :
                    \E p2 \in Places(ps) :
                        p2 # p1 /\ ValueAt(ps, p2) = ValueAt(ps, p1)}})

\* Three records of different ids share one value, one of them listing it
\* twice, and the count is 3.
C16_Witness ==
    /\ IsDuplicateCall
    /\ Len(fn_call.patients) = 3
    /\ \A i \in 1..3 : ListsValue(fn_call.patients, i, "v1")
    /\ \A i, j \in 1..3 : i # j => fn_call.patients[i].id # fn_call.patients[j].id
    /\ Len(fn_call.patients[1].identifier) = 2
    /\ fn_out.count = 3

IsStaleCall == fn_call.fn = "StalePatientCheck.execute"

\* Whether a timestamp is present, parses and lies before the cutoff.
Precedes(ts) ==
    /\ ts \in DOMAIN date_table
    /\ date_table[ts] < date_table["2024-05-28T00:00:00Z"]

\* The references of the fetched patients last updated before the cutoff.
StalePatients ==
    {patient_ref(fn_call.patients[i].id) :
        i \in {j \in 1..Len(fn_call.patients) : Precedes(fn_call.patients[j].lastUpdated)}}

\* C17: the raw count of the stale-record check is the number of
\* distinct fetched Patient records last updated before the cutoff, 0 when no
\* patient is stale.
C17_CountsStalePatients ==
    (IsStaleCall /\ "count" \in DOMAIN fn_out) =>
        fn_out.count = Cardinality(StalePatients)

SomeRejected == \E k \in CheckKeys : IsRejected(k)

\* C18: rejection is suffix-closed: after a check was rejected for budget,
\* every later check of the registry is rejected too and not executed, and
\* total_epsilon_used does not change any more; the executed checks are a
\* prefix of the registry.
C18_RejectionSuffixClosed ==
    /\ [](pc \in {"loop", "done", "crashed"} =>
            /\ \A i \in 1..(idx - 1) : \A j \in (i + 1)..(idx - 1) :
                  IsRejected(NameAt(i)) =>
                      IsRejected(NameAt(j)) /\ ~WasExecuted(NameAt(j))
            /\ Len(executed) <= Len(quality_checks)
            /\ \A a \in 1..Len(executed) : executed[a] = NameAt(a)
            /\ \A i \in 1..(idx - 1) : IsRejected(NameAt(i)) <=> i > Len(executed))
    /\ [][SomeRejected =>
            /\ total_epsilon_used' = total_epsilon_used
            /\ executed' = executed
            /\ (AtCheck /\ idx' = idx + 1) =>
                  /\ "error" \in DOMAIN results'[NameAt(idx)]
                  /\ results'[NameAt(idx)].error = BudgetError]_vars

\* A finished run whose first check completed, whose second was rejected and
\* whose last was rejected after it.
C18_Witness ==
    /\ pc = "done"
    /\ Len(quality_checks) >= 4
    /\ executed = <<NameAt(1)>>
    /\ HasCount(NameAt(1))
    /\ IsRejected(NameAt(2))
    /\ IsRejected(NameAt(Len(quality_checks)))
    /\ total_epsilon_used = epsilon

====
